---- MODULE Spec2Model ----
(***************************************************************************)
(* Model of ngx_http_fancyindex_handler (ngx_http_fancyindex_module.c):    *)
(* the directory listing handler, its entry comparator, the readme path    *)
(* resolver and the error helper.                                          *)
(*                                                                         *)
(* Strings are sequences of byte values (0..255).  The handler is a state  *)
(* machine whose steps are cut at the calls into nginx and the operating   *)
(* system (open, read, stat, close, allocation, header and body output);   *)
(* the outcome of each such call is an input of the step.                  *)
(***************************************************************************)
EXTENDS Integers, Sequences, FiniteSets, TLC

VARIABLES
    pc,          \* position inside ngx_http_fancyindex_handler
    r,           \* the request: uri length, utf8, header_only, method, ...
    alcf,        \* ngx_http_fancyindex_loc_conf_t of the location
    fs,          \* what the directory stream will enumerate, in order
    pos,         \* number of ngx_read_dir calls that returned an entry
    dir,         \* the ngx_dir_t handle: "none", "open" or "closed"
    closes,      \* number of ngx_close_dir calls issued on the handle
    headers_out, \* status of the response header sent, 0 when none was sent
    entries,     \* the ngx_array_t of ngx_http_fancyindex_entry_t
    readme_path, \* readme_path.len after nfi_get_readme_path
    len,         \* the capacity computed for ngx_create_temp_buf
    b,           \* the buffer: sequence of fragments written so far
    i,           \* index of the next row to render
    rc,          \* value returned by the handler, NoRc while running
    allocated,   \* bytes of the filename scratch buffer beyond path.len
    close_failed,\* whether an ngx_close_dir call returned NGX_ERROR
    vanished,    \* entries whose two metadata probes both said "no entry"
    err,         \* ngx_errno of the last failed call, "none" before any
    reads,       \* number of ngx_read_dir calls issued
    readme_probe \* what nfi_get_readme_path found: "none" before the call

vars == <<pc, r, alcf, fs, pos, dir, closes, headers_out, entries,
          readme_path, len, b, i, rc, allocated, close_failed, vanished, err,
          reads, readme_probe>>

-----------------------------------------------------------------------------
(* Bounds of the model *)

\* longest directory listing enumerated by the handler specification
MaxEntries == 2
\* longest request URI (bytes)
MaxUriLen == 2

-----------------------------------------------------------------------------
(* Program constants *)

NGX_HTTP_FANCYINDEX_README_TOP == 0
NGX_HTTP_FANCYINDEX_README_BOTTOM == 2
NGX_HTTP_FANCYINDEX_README_DIV == 4
NGX_HTTP_FANCYINDEX_README_IFRAME == 8
NGX_HTTP_FANCYINDEX_NAME_LEN == 50
NGX_HTTP_FANCYINDEX_PREALLOCATE == 50

NGX_OK == 0
NGX_ERROR == -1
NGX_DECLINED == -5
NGX_HTTP_OK == 200
NGX_HTTP_FORBIDDEN == 403
NGX_HTTP_NOT_FOUND == 404
NGX_HTTP_INTERNAL_SERVER_ERROR == 500
\* marks "the handler has not returned yet"
NoRc == NGX_ERROR - 1000

\* 2^30: an off_t value v is held as [g |-> v \div 2^30, r |-> v % 2^30],
\* so that 64-bit sizes stay inside the integers the checker can hold
GiB == 1073741824
MiB == 1048576
KiB == 1024

-----------------------------------------------------------------------------
(* Bytes and strings *)

Min(x, y) == IF x < y THEN x ELSE y
Max(x, y) == IF x > y THEN x ELSE y

Rep(s, k) == [j \in 1..(k * Len(s)) |-> s[((j - 1) % Len(s)) + 1]]

Take(s, k) == SubSeq(s, 1, Min(k, Len(s)))

RECURSIVE Digits(_)
Digits(n) == IF n < 10 THEN 1 ELSE 1 + Digits(n \div 10)

\* "..&gt;" : the ellipsis written over a truncated name
Ellipsis == <<46, 46, 38, 103, 116, 59>>
Slash == 47

\* ngx_cpystrn(dst, src, n): copies at most n - 1 bytes
ngx_cpystrn(src, n) == IF n = 0 THEN <<>> ELSE Take(src, n - 1)

\* extra bytes announced by a lead byte: the 1 bits after the first
UtfExtra(c) == IF c < 224 THEN 1 ELSE IF c < 240 THEN 2 ELSE 3

\* one turn of the loop shared by ngx_utf_length and ngx_utf_cpystrn: at
\* byte st.pos, an ASCII byte or a lead byte with the bytes it announces is
\* one codepoint; any other byte is not UTF-8
utf_step(p, st) ==
    IF st.bad \/ st.pos > Len(p) THEN st
    ELSE IF p[st.pos] < 128
    THEN [pos |-> st.pos + 1, cnt |-> st.cnt + 1, bad |-> FALSE]
    ELSE IF p[st.pos] >= 192
    THEN [pos |-> st.pos + 1 + UtfExtra(p[st.pos]), cnt |-> st.cnt + 1,
          bad |-> FALSE]
    ELSE [pos |-> st.pos, cnt |-> st.cnt, bad |-> TRUE]

\* m turns of the loop, the turns split in halves
RECURSIVE utf_run(_, _, _)
utf_run(p, st, m) ==
    IF m = 0 \/ st.bad \/ st.pos > Len(p) THEN st
    ELSE IF m = 1 THEN utf_step(p, st)
    ELSE utf_run(p, utf_run(p, st, m \div 2), m - m \div 2)

\* ngx_utf_length(p, n): codepoints of p, or n when p is not UTF-8
ngx_utf_length(p) ==
    LET st == utf_run(p, [pos |-> 1, cnt |-> 0, bad |-> FALSE], Len(p))
    IN  IF st.bad THEN Len(p) ELSE st.cnt

\* ngx_utf_cpystrn(dst, src, n): copies at most n - 1 codepoints
ngx_utf_cpystrn(src, n) ==
    IF n = 0 THEN <<>>
    ELSE LET st == utf_run(src, [pos |-> 1, cnt |-> 0, bad |-> FALSE], n - 1)
         IN  SubSeq(src, 1, Min(st.pos - 1, Len(src)))

\* bytes ngx_escape_uri(..., NGX_ESCAPE_HTML) writes as %XX
Escaped(c) == c < 32 \/ c >= 127 \/ c \in {32, 34, 35, 37, 39}

HexDigit(d) == IF d < 10 THEN 48 + d ELSE 55 + d

\* ngx_escape_uri(NULL, ...): the number of bytes to escape
escape_count(s) == Cardinality({ j \in 1..Len(s) : Escaped(s[j]) })

\* ngx_escape_uri(dst, ...): the bytes written for src[lo..hi]
RECURSIVE escape_range(_, _, _)
escape_range(s, lo, hi) ==
    IF lo > hi THEN <<>>
    ELSE IF lo = hi
    THEN (IF Escaped(s[lo])
          THEN <<37, HexDigit(s[lo] \div 16), HexDigit(s[lo] % 16)>>
          ELSE <<s[lo]>>)
    ELSE escape_range(s, lo, (lo + hi) \div 2)
         \o escape_range(s, (lo + hi) \div 2 + 1, hi)

escape_write(s) == escape_range(s, 1, Len(s))

\* ngx_strcmp: the sign of the first differing byte, compared unsigned
RECURSIVE ngx_strcmp(_, _)
ngx_strcmp(s, t) ==
    IF s = <<>> /\ t = <<>> THEN 0
    ELSE IF s = <<>> THEN -1
    ELSE IF t = <<>> THEN 1
    ELSE IF Head(s) < Head(t) THEN -1
    ELSE IF Head(s) > Head(t) THEN 1
    ELSE ngx_strcmp(Tail(s), Tail(t))

-----------------------------------------------------------------------------
(* Template fragments (template.h) and the helper macros of the header *)

t01_head1 == 3
t02_head2 == 4
t03_body1 == 5
t04_body2 == 6
t05_list1 == 7
t06_list2 == 8
t07_body3 == 9
t08_body4 == 10
t09_foot1 == 11

NFI_TEMPLATE_SIZE ==
    t01_head1 + t02_head2 + t03_body1 + t04_body2 + t05_list1
    + t06_list2 + t07_body3 + t08_body4 + t09_foot1

\* bitwise AND of two small unsigned values
RECURSIVE BitAnd(_, _)
BitAnd(x, y) ==
    IF x = 0 \/ y = 0 THEN 0
    ELSE (x % 2) * (y % 2) + 2 * BitAnd(x \div 2, y \div 2)

\* nfi_has_flag(where, what): every bit of what is set in where
nfi_has_flag(where, what) == BitAnd(where, what) = what

-----------------------------------------------------------------------------
(* Entries, the comparator and the sort *)

\* lines 393-413: the entry built from a directory record d whose metadata
\* says (isdir, size)
MakeEntry(d, isdir, size, utf8) ==
    [name    |-> d.name,
     utf_len |-> IF utf8 THEN ngx_utf_length(d.name) ELSE Len(d.name),
     escape  |-> 2 * escape_count(d.name),
     dir     |-> isdir,
     size    |-> size]

\* the comparator without the directories-first rule
cmp_entries_NamesOnly(first, second) == ngx_strcmp(first.name, second.name)

ngx_http_fancyindex_cmp_entries(first, second) ==
    IF first.dir /\ ~second.dir THEN -1
    ELSE IF ~first.dir /\ second.dir THEN 1
    ELSE ngx_strcmp(first.name, second.name)

\* ngx_qsort with the comparator: insertion into the ordered prefix
RECURSIVE SortInsert(_, _)
SortInsert(e, s) ==
    IF s = <<>> THEN <<e>>
    ELSE IF ngx_http_fancyindex_cmp_entries(e, Head(s)) <= 0 THEN <<e>> \o s
    ELSE <<Head(s)>> \o SortInsert(e, Tail(s))

RECURSIVE ngx_qsort(_)
ngx_qsort(s) ==
    IF s = <<>> THEN <<>> ELSE SortInsert(Head(s), ngx_qsort(Tail(s)))

\* lines 479-483
SortEntries(s) == IF Len(s) > 1 THEN ngx_qsort(s) ELSE s

-----------------------------------------------------------------------------
(* Size estimation (lines 421-472) *)

\* lines 434-440: the bytes reserved for the readme iframe
ReadmeCapacity(uri_len, readme_len) ==
    3 + Len("<iframe id=\"readme\" src=\"") + uri_len + readme_len
      + Len("\">(readme file)</iframe>")

\* lines 460-471: the bytes reserved for one row
RowCapacity(e) ==
    Len("<tr class=\"X\"><td><a href=\"")
    + Len(e.name) + e.escape
    + Len("\">")
    + Len(e.name) + e.utf_len
    + NGX_HTTP_FANCYINDEX_NAME_LEN + Len("&gt;")
    + Len("</a></td><td>")
    + 20
    + Len("</td><td>")
    + Len(" 28-Sep-1970 12:00 ")
    + Len("</td></tr>\n")
    + 2

RECURSIVE RowsCapacity(_)
RowsCapacity(s) ==
    IF s = <<>> THEN 0 ELSE RowCapacity(Head(s)) + RowsCapacity(Tail(s))

\* lines 421-472
EstimateLen(uri_len, rp_len, conf, s) ==
    NFI_TEMPLATE_SIZE + uri_len + uri_len
    + (IF rp_len # 0
          /\ nfi_has_flag(conf.readme_flags, NGX_HTTP_FANCYINDEX_README_IFRAME)
       THEN ReadmeCapacity(uri_len, conf.readme_len) ELSE 0)
    + RowsCapacity(s)

-----------------------------------------------------------------------------
(* Rendering of one row (lines 524-643) *)

\* lines 534-549: the href attribute value
HrefText(e) ==
    (IF e.escape # 0 THEN escape_write(e.name) ELSE e.name)
    \o (IF e.dir THEN <<Slash>> ELSE <<>>)

\* the visible link text with the ellipsis written after all copied bytes
VisibleName_NoBackup(e) ==
    LET ulen == e.utf_len
        utf  == Len(e.name) - ulen # 0
        copy == IF ulen > NGX_HTTP_FANCYINDEX_NAME_LEN
                THEN NGX_HTTP_FANCYINDEX_NAME_LEN - 3 + 1
                ELSE NGX_HTTP_FANCYINDEX_NAME_LEN + 1
        text == IF utf THEN ngx_utf_cpystrn(e.name, copy)
                ELSE ngx_cpystrn(e.name, NGX_HTTP_FANCYINDEX_NAME_LEN + 1)
    IN  IF ulen > NGX_HTTP_FANCYINDEX_NAME_LEN
        THEN text \o Ellipsis
        ELSE IF e.dir /\ NGX_HTTP_FANCYINDEX_NAME_LEN - ulen > 0
             THEN text \o <<Slash>>
             ELSE text

\* lines 551-579: the visible link text
VisibleName(e) ==
    LET ulen == e.utf_len
        utf  == Len(e.name) - ulen # 0
        copy == IF ulen > NGX_HTTP_FANCYINDEX_NAME_LEN
                THEN NGX_HTTP_FANCYINDEX_NAME_LEN - 3 + 1
                ELSE NGX_HTTP_FANCYINDEX_NAME_LEN + 1
        text == IF utf THEN ngx_utf_cpystrn(e.name, copy)
                ELSE ngx_cpystrn(e.name, NGX_HTTP_FANCYINDEX_NAME_LEN + 1)
        last == IF utf THEN Len(text) ELSE Len(text) - 3
    IN  IF ulen > NGX_HTTP_FANCYINDEX_NAME_LEN
        THEN SubSeq(text, 1, last) \o Ellipsis
        ELSE IF e.dir /\ NGX_HTTP_FANCYINDEX_NAME_LEN - ulen > 0
             THEN text \o <<Slash>>
             ELSE text

\* the scaling with K starting at 1024 bytes
ScaledSize_KiloFrom1024(length) ==
    IF length.g > 0
    THEN [size  |-> length.g + (IF length.r > GiB \div 2 - 1 THEN 1 ELSE 0),
          scale |-> "G"]
    ELSE IF length.r > MiB - 1
    THEN [size  |-> (length.r \div MiB)
                    + (IF length.r % MiB > MiB \div 2 - 1 THEN 1 ELSE 0),
          scale |-> "M"]
    ELSE IF length.r > KiB - 1
    THEN [size  |-> (length.r \div KiB)
                    + (IF length.r % KiB > 511 THEN 1 ELSE 0),
          scale |-> "K"]
    ELSE [size |-> length.r, scale |-> ""]

\* lines 592-620: the scaled magnitude and its unit of a file length
ScaledSize(length) ==
    IF length.g > 0
    THEN [size  |-> length.g + (IF length.r > GiB \div 2 - 1 THEN 1 ELSE 0),
          scale |-> "G"]
    ELSE IF length.r > MiB - 1
    THEN [size  |-> (length.r \div MiB)
                    + (IF length.r % MiB > MiB \div 2 - 1 THEN 1 ELSE 0),
          scale |-> "M"]
    ELSE IF length.r > 9999
    THEN [size  |-> (length.r \div KiB)
                    + (IF length.r % KiB > 511 THEN 1 ELSE 0),
          scale |-> "K"]
    ELSE [size |-> length.r, scale |-> ""]

\* lines 581-629: the size column; n is the number of bytes written
SizeField(e, exact_size) ==
    IF e.dir
    THEN [kind |-> "dash", size |-> 0, scale |-> "", n |-> 1]
    ELSE IF exact_size
    THEN [kind |-> "exact", size |-> e.size, scale |-> "", n |-> 19]
    ELSE LET s == ScaledSize(e.size)
         IN  [kind |-> "scaled", size |-> s.size, scale |-> s.scale,
              n |-> IF s.scale # "" THEN Max(6, Digits(s.size)) + 1
                    ELSE 1 + Max(6, Digits(s.size))]

\* lines 631-642: "</td><td>DD-Mon-YYYY HH:MM</td></tr>" and CR LF
DateFieldLen == Len("</td><td>") + 17 + Len("</td></tr>") + 2

\* lines 524-643: row idx (from 0) of the table
RenderRow(idx, e, exact_size) ==
    LET href == HrefText(e)
        vis  == VisibleName(e)
        sz   == SizeField(e, exact_size)
    IN  [cls     |-> IF idx % 2 = 0 THEN "e" ELSE "o",
         name    |-> e.name,
         dir     |-> e.dir,
         href    |-> href,
         visible |-> vis,
         size    |-> sz,
         n       |-> Len("<tr class=\"") + 1 + Len("\"><td><a href=\"")
                     + Len(href) + 2
                     + Len(vis) + Len("</a></td><td>")
                     + sz.n + DateFieldLen]

\* a fragment of the buffer: a template, the URI, the iframe or a row
Frag(t, n) == [t |-> t, n |-> n, row |-> <<>>]
RowFrag(row) == [t |-> "row", n |-> row.n, row |-> <<row>>]

\* lines 498-507: nfi_add_readme_iframe
ReadmeIframe(uri_len, readme_len) ==
    Frag("iframe", Len("<iframe id=\"readme\" src=\"") + uri_len + 1
                   + readme_len + Len("\">(readme file)</iframe>") + 2)

\* b->last - b->pos: the bytes written so far
RECURSIVE Written(_)
Written(buf) == IF buf = <<>> THEN 0 ELSE Head(buf).n + Written(Tail(buf))


-----------------------------------------------------------------------------
(* Inputs: requests, configurations and directory contents *)

\* a size below 2^30 as an off_t
Off(n) == [g |-> 0, r |-> n]

\* the length of the configured readme file name, when one is configured
ReadmeNameLen == 6

Requests ==
    [uri_len : 1..MaxUriLen, utf8 : BOOLEAN, header_only : BOOLEAN,
     decline : {"none"}]
    \cup [uri_len : {1}, utf8 : {FALSE}, header_only : {FALSE},
          decline : {"uri", "zero_in_uri", "method"}]

ReadmeFlagSet ==
    {NGX_HTTP_FANCYINDEX_README_TOP,
     NGX_HTTP_FANCYINDEX_README_BOTTOM,
     NGX_HTTP_FANCYINDEX_README_IFRAME,
     NGX_HTTP_FANCYINDEX_README_BOTTOM + NGX_HTTP_FANCYINDEX_README_IFRAME,
     NGX_HTTP_FANCYINDEX_README_BOTTOM + NGX_HTTP_FANCYINDEX_README_DIV}

Confs ==
    [enable : {TRUE}, exact_size : BOOLEAN, readme_len : {0, ReadmeNameLen},
     readme_flags : ReadmeFlagSet]
    \cup [enable : {FALSE}, exact_size : {TRUE}, readme_len : {0},
          readme_flags : {NGX_HTTP_FANCYINDEX_README_TOP}]

\* directory records: name, and what a metadata probe reports
DirentPool ==
    { [name |-> <<97>>,            is_dir |-> FALSE, size |-> Off(10000)],
      [name |-> <<98>>,            is_dir |-> TRUE,  size |-> Off(0)],
      [name |-> <<46, 104>>,       is_dir |-> FALSE, size |-> Off(1)],
      [name |-> <<66, 32>>,        is_dir |-> FALSE, size |-> Off(0)],
      [name |-> <<195, 169>>,      is_dir |-> TRUE,  size |-> Off(0)],
      [name |-> Rep(<<97>>, 55),   is_dir |-> FALSE, size |-> [g |-> 3, r |-> 0]] }

\* a directory enumerates each name once, in any order
Listings ==
    UNION { { l \in [1..k -> DirentPool] :
                \A x, y \in 1..k : x # y => l[x].name # l[y].name }
            : k \in 0..MaxEntries }

-----------------------------------------------------------------------------
(* The handler *)

Init ==
    /\ pc = "start"
    /\ r \in Requests
    /\ alcf \in Confs
    /\ fs = <<>>
    /\ pos = 0
    /\ dir = "none"
    /\ closes = 0
    /\ headers_out = 0
    /\ entries = <<>>
    /\ readme_path = 0
    /\ len = 0
    /\ b = <<>>
    /\ i = 0
    /\ rc = NoRc
    /\ allocated = 0
    /\ close_failed = FALSE
    /\ vanished = 0
    /\ err = "none"
    /\ reads = 0
    /\ readme_probe = "none"

\* "return code": the handler leaves with this value
Return(code) == rc' = code /\ pc' = "done"

\* the mapping with name-too-long left to the default branch
OpenErrorStatus_NoNameTooLong(e) ==
    IF e \in {"ENOENT", "ENOTDIR"} THEN NGX_HTTP_NOT_FOUND
    ELSE IF e = "EACCES" THEN NGX_HTTP_FORBIDDEN
    ELSE NGX_HTTP_INTERNAL_SERVER_ERROR

\* lines 275-298: the status an ngx_open_dir error is mapped to
OpenErrorStatus(e) ==
    IF e \in {"ENOENT", "ENOTDIR", "ENAMETOOLONG"} THEN NGX_HTTP_NOT_FOUND
    ELSE IF e = "EACCES" THEN NGX_HTTP_FORBIDDEN
    ELSE NGX_HTTP_INTERNAL_SERVER_ERROR

\* the error helper with its result taken from ngx_close_dir's
ngx_http_fancyindex_error_CloseDecides(closed) ==
    /\ dir' = "closed"
    /\ closes' = closes + 1
    /\ close_failed' = (close_failed \/ ~closed)
    /\ Return(IF closed THEN NGX_HTTP_INTERNAL_SERVER_ERROR ELSE NGX_ERROR)

\* lines 773-782: ngx_http_fancyindex_error; closed is ngx_close_dir's result
ngx_http_fancyindex_error(closed) ==
    /\ dir' = "closed"
    /\ closes' = closes + 1
    /\ close_failed' = (close_failed \/ ~closed)
    /\ Return(NGX_HTTP_INTERNAL_SERVER_ERROR)

\* lines 241-270: the checks that decline the request, and the path mapping
Start ==
    /\ pc = "start"
    /\ \E mapped \in BOOLEAN :
         IF r.decline # "none" \/ ~alcf.enable
         THEN /\ mapped
              /\ Return(NGX_DECLINED)
              /\ UNCHANGED allocated
         ELSE IF ~mapped
         THEN /\ Return(NGX_HTTP_INTERNAL_SERVER_ERROR)
              /\ UNCHANGED allocated
         ELSE /\ pc' = "open"
              /\ allocated' = NGX_HTTP_FANCYINDEX_PREALLOCATE + 2
              /\ UNCHANGED rc
    /\ UNCHANGED <<r, alcf, fs, pos, dir, closes, headers_out, entries,
                   readme_path, len, b, i, close_failed, vanished, err, reads, readme_probe>>

\* lines 275-298: ngx_open_dir
OpenDir ==
    /\ pc = "open"
    /\ \E e \in {"ok", "ENOENT", "ENOTDIR", "ENAMETOOLONG", "EACCES", "EIO"} :
         IF e = "ok"
         THEN /\ dir' = "open"
              /\ fs' \in Listings
              /\ pc' = "array_init"
              /\ UNCHANGED <<rc, err>>
         ELSE /\ err' = e
              /\ Return(OpenErrorStatus(e))
              /\ UNCHANGED <<dir, fs>>
    /\ UNCHANGED <<r, alcf, pos, closes, headers_out, entries, readme_path,
                   len, b, i, allocated, close_failed, vanished, reads, readme_probe>>

\* lines 308-312: ngx_array_init
ArrayInit ==
    /\ pc = "array_init"
    /\ \/ /\ pc' = "send_header"
          /\ UNCHANGED <<dir, closes, close_failed, rc>>
       \/ \E closed \in BOOLEAN : ngx_http_fancyindex_error(closed)
    /\ UNCHANGED <<r, alcf, fs, pos, headers_out, entries, readme_path,
                   len, b, i, allocated, vanished, err, reads, readme_probe>>

\* lines 314-322: the response header is sent before the directory is read
SendHeader ==
    /\ pc = "send_header"
    /\ headers_out' = NGX_HTTP_OK
    /\ \E sent \in {NGX_OK, NGX_ERROR, NGX_HTTP_INTERNAL_SERVER_ERROR} :
         IF sent = NGX_ERROR \/ sent > NGX_OK \/ r.header_only
         THEN Return(sent)
         ELSE pc' = "read" /\ UNCHANGED rc
    /\ UNCHANGED <<r, alcf, fs, pos, dir, closes, entries, readme_path,
                   len, b, i, allocated, close_failed, vanished, err, reads, readme_probe>>

\* lines 330-340: ngx_read_dir fails with an error other than "no more files"
ReadDirError ==
    /\ pc = "read"
    /\ reads' = reads + 1
    /\ err' = "EIO"
    /\ \E closed \in BOOLEAN : ngx_http_fancyindex_error(closed)
    /\ UNCHANGED <<r, alcf, fs, pos, headers_out, entries, readme_path,
                   len, b, i, allocated, vanished, readme_probe>>

\* lines 330-340: the end of the directory
ReadDirEnd ==
    /\ pc = "read"
    /\ pos = Len(fs)
    /\ pc' = "close"
    /\ reads' = reads + 1
    /\ UNCHANGED <<r, alcf, fs, pos, dir, closes, headers_out, entries,
                   readme_path, len, b, i, rc, allocated, close_failed,
                   vanished, err, readme_probe>>

\* lines 345-349: a name that starts with '.' is passed over
ReadDirHidden ==
    /\ pc = "read"
    /\ pos < Len(fs)
    /\ fs[pos + 1].name[1] = 46
    /\ pos' = pos + 1
    /\ reads' = reads + 1
    /\ UNCHANGED <<pc, r, alcf, fs, dir, closes, headers_out, entries,
                   readme_path, len, b, i, rc, allocated, close_failed,
                   vanished, err, readme_probe>>

\* what can happen to one listed name between ngx_read_dir and the entry
ProbeOutcomes ==
    {"valid_info", "info_ok", "link_ok", "filename_nomem", "info_err",
     "link_enoent", "link_err", "push_nomem", "name_nomem"}

\* ngx_errno left by a failing outcome
ProbeErrno(o) ==
    IF o = "link_enoent" THEN "ENOENT"
    ELSE IF o \in {"info_err", "link_err"} THEN "EIO"
    ELSE "ENOMEM"

\* the outcome adds no entry to the listing
ProbeAborts_KeepsVanished(o) ==
    o \notin {"valid_info", "info_ok", "link_ok", "link_enoent"}

\* lines 360-398: the outcomes that end in ngx_http_fancyindex_error
ProbeAborts(o) == o \notin {"valid_info", "info_ok", "link_ok"}

\* lines 351-366: whether the scratch buffer is too small for this name
NeedsAlloc(d) == 1 + Len(d.name) + 1 > allocated

\* lines 351-413: one listed name: the metadata probes and the new entry
ReadDirEntry ==
    /\ pc = "read"
    /\ pos < Len(fs)
    /\ fs[pos + 1].name[1] # 46
    /\ LET d == fs[pos + 1] IN
       \E o \in ProbeOutcomes :
         /\ o = "filename_nomem" => NeedsAlloc(d)
         /\ vanished' = IF o = "link_enoent" THEN vanished + 1 ELSE vanished
         /\ IF ~ProbeAborts(o)
            THEN /\ entries' = Append(entries,
                       IF o = "link_ok"
                       THEN MakeEntry(d, FALSE, d.size, r.utf8)
                       ELSE MakeEntry(d, d.is_dir, d.size, r.utf8))
                 /\ pos' = pos + 1
                 /\ allocated' = IF o # "valid_info" /\ NeedsAlloc(d)
                                 THEN 1 + Len(d.name) + 1
                                      + NGX_HTTP_FANCYINDEX_PREALLOCATE
                                 ELSE allocated
                 /\ UNCHANGED <<pc, dir, closes, close_failed, rc, err>>
            ELSE /\ \E closed \in BOOLEAN : ngx_http_fancyindex_error(closed)
                 /\ err' = ProbeErrno(o)
                 /\ UNCHANGED <<entries, pos, allocated>>
    /\ reads' = reads + 1
    /\ UNCHANGED <<r, alcf, fs, headers_out, readme_path, len, b, i, readme_probe>>

\* the end of the read loop without the ngx_close_dir call
CloseDir_LeavesOpen ==
    /\ pc = "close"
    /\ pc' = "readme"
    /\ UNCHANGED <<r, alcf, fs, pos, dir, closes, headers_out, entries,
                   readme_path, len, b, i, rc, allocated, close_failed,
                   vanished, err, reads, readme_probe>>

\* lines 416-419: ngx_close_dir after the last entry
CloseDir ==
    /\ pc = "close"
    /\ \E closed \in BOOLEAN :
         /\ dir' = "closed"
         /\ closes' = closes + 1
         /\ close_failed' = (close_failed \/ ~closed)
    /\ pc' = "readme"
    /\ UNCHANGED <<r, alcf, fs, pos, headers_out, entries, readme_path,
                   len, b, i, rc, allocated, vanished, err, reads, readme_probe>>

\* lines 747-770: readme_path.len; probe is ngx_file_info's success
nfi_get_readme_path(conf, path_len, probe) ==
    IF conf.readme_len = 0 THEN 0
    ELSE IF ~probe THEN 0
    ELSE path_len + 2 + conf.readme_len

\* line 431: the readme is looked up once the directory is closed
GetReadmePath ==
    /\ pc = "readme"
    /\ \E probe \in BOOLEAN :
         /\ readme_path' = nfi_get_readme_path(alcf, r.uri_len, probe)
         /\ readme_probe' = IF alcf.readme_len = 0 THEN "unconfigured"
                            ELSE IF probe THEN "present" ELSE "failed"
    /\ pc' = "estimate"
    /\ UNCHANGED <<r, alcf, fs, pos, dir, closes, headers_out, entries,
                   len, b, i, rc, allocated, close_failed, vanished, err, reads>>

\* lines 421-477: the capacity, and ngx_create_temp_buf
CreateBuf ==
    /\ pc = "estimate"
    /\ len' = EstimateLen(r.uri_len, readme_path, alcf, entries)
    /\ \/ pc' = "sort" /\ UNCHANGED rc
       \/ Return(NGX_HTTP_INTERNAL_SERVER_ERROR)
    /\ UNCHANGED <<r, alcf, fs, pos, dir, closes, headers_out, entries,
                   readme_path, b, i, allocated, close_failed, vanished, err, reads, readme_probe>>

\* lines 479-483
Sort ==
    /\ pc = "sort"
    /\ entries' = SortEntries(entries)
    /\ pc' = "render_head"
    /\ UNCHANGED <<r, alcf, fs, pos, dir, closes, headers_out, readme_path,
                   len, b, i, rc, allocated, close_failed, vanished, err, reads, readme_probe>>

\* the placement test without the check of readme_path.len
ReadmeAt_IgnoresPath(placement) ==
    IF ~nfi_has_flag(alcf.readme_flags, placement) THEN <<>>
    ELSE IF nfi_has_flag(alcf.readme_flags, NGX_HTTP_FANCYINDEX_README_IFRAME)
    THEN <<ReadmeIframe(r.uri_len, alcf.readme_len)>>
    ELSE <<>>

\* lines 494-515 and 658-668: the iframe written at a placement, if any
ReadmeAt(placement) ==
    IF readme_path = 0 \/ ~nfi_has_flag(alcf.readme_flags, placement)
    THEN <<>>
    ELSE IF nfi_has_flag(alcf.readme_flags, NGX_HTTP_FANCYINDEX_README_IFRAME)
    THEN <<ReadmeIframe(r.uri_len, alcf.readme_len)>>
    ELSE <<>>

\* lines 485-520: the head of the document up to the table header
RenderHead ==
    /\ pc = "render_head"
    /\ b' = <<Frag("t01_head1", t01_head1), Frag("uri", r.uri_len),
              Frag("t02_head2", t02_head2), Frag("t03_body1", t03_body1),
              Frag("uri", r.uri_len), Frag("t04_body2", t04_body2)>>
            \o ReadmeAt(NGX_HTTP_FANCYINDEX_README_TOP)
            \o <<Frag("t05_list1", t05_list1)>>
    /\ i' = 0
    /\ pc' = "render_rows"
    /\ UNCHANGED <<r, alcf, fs, pos, dir, closes, headers_out, entries,
                   readme_path, len, rc, allocated, close_failed, vanished, err, reads, readme_probe>>

\* lines 524-643: one turn of the row loop
RenderRows ==
    /\ pc = "render_rows"
    /\ IF i < Len(entries)
       THEN /\ b' = Append(b, RowFrag(RenderRow(i, entries[i + 1],
                                                 alcf.exact_size)))
            /\ i' = i + 1
            /\ UNCHANGED pc
       ELSE /\ pc' = "render_tail"
            /\ UNCHANGED <<b, i>>
    /\ UNCHANGED <<r, alcf, fs, pos, dir, closes, headers_out, entries,
                   readme_path, len, rc, allocated, close_failed, vanished, err, reads, readme_probe>>

\* lines 648-674: the table bottom and the end of the document
RenderTail ==
    /\ pc = "render_tail"
    /\ b' = b \o <<Frag("t06_list2", t06_list2), Frag("t07_body3", t07_body3)>>
              \o ReadmeAt(NGX_HTTP_FANCYINDEX_README_BOTTOM)
              \o <<Frag("t08_body4", t08_body4), Frag("t09_foot1", t09_foot1)>>
    /\ pc' = "filter"
    /\ UNCHANGED <<r, alcf, fs, pos, dir, closes, headers_out, entries,
                   readme_path, len, i, rc, allocated, close_failed, vanished, err, reads, readme_probe>>

\* lines 676-685: the buffer is handed to ngx_http_output_filter
OutputFilter ==
    /\ pc = "filter"
    /\ \E sent \in {NGX_OK, NGX_ERROR} : Return(sent)
    /\ UNCHANGED <<r, alcf, fs, pos, dir, closes, headers_out, entries,
                   readme_path, len, b, i, allocated, close_failed, vanished, err, reads, readme_probe>>

Next ==
    \/ Start
    \/ OpenDir
    \/ ArrayInit
    \/ SendHeader
    \/ ReadDirError
    \/ ReadDirEnd
    \/ ReadDirHidden
    \/ ReadDirEntry
    \/ CloseDir
    \/ GetReadmePath
    \/ CreateBuf
    \/ Sort
    \/ RenderHead
    \/ RenderRows
    \/ RenderTail
    \/ OutputFilter

Spec == Init /\ [][Next]_vars


-----------------------------------------------------------------------------
(* Properties *)

Failure == {NGX_HTTP_NOT_FOUND, NGX_HTTP_FORBIDDEN,
            NGX_HTTP_INTERNAL_SERVER_ERROR}

\* the rows of the buffer, in the order written
Rows == SelectSeq(b, LAMBDA f : f.t = "row")

\* the number of readme iframes in the buffer
Iframes == Len(SelectSeq(b, LAMBDA f : f.t = "iframe"))

\* an iframe fragment directly follows the fragment tagged t
IframeAfter(t) ==
    \E k \in 1..(Len(b) - 1) : b[k].t = t /\ b[k + 1].t = "iframe"

\* the whole document has been written
Rendered == pc \in {"filter", "done"} /\ b # <<>>

\* C1: the capacity computed before allocation is at least the number of
\* bytes the renderer has written: the write position never passes the end
\* of the buffer.
C1_CapacityCoversWrites == Written(b) <= len

\* C2: once the directory was opened, no invocation returns with the handle
\* still open.
C2_HandleClosedOnReturn == pc = "done" => dir # "open"

\* C3: when the handler returns 404, 403 or 500 because opening, reading or
\* collecting the directory entries failed, no status-200 header has been
\* emitted for the request.
C3_NoHeaderOnFailure ==
    (pc = "done" /\ rc \in Failure /\ err # "none") => headers_out = 0

\* the status the claim gives for an open error
C5_Status(e) ==
    CASE e = "ENOENT" -> 404
      [] e = "ENOTDIR" -> 404
      [] e = "ENAMETOOLONG" -> 404
      [] e = "EACCES" -> 403
      [] OTHER -> 500

\* C5: if opening the directory fails the handler returns 404 for no-such-
\* entry, not-a-directory and name-too-long, 403 for permission-denied and
\* 500 for any other error, with no header, no body byte and no directory
\* read.
C5_OpenFailure ==
    (pc = "done" /\ dir = "none" /\ err # "none") =>
        /\ rc = C5_Status(err)
        /\ headers_out = 0
        /\ b = <<>>
        /\ reads = 0
        /\ closes = 0

\* C5 witness: the open failed with name-too-long and the handler returned
C5_Witness ==
    pc = "done" /\ dir = "none" /\ err = "ENAMETOOLONG"
    /\ rc = NGX_HTTP_NOT_FOUND


\* the listed names that do not start with '.'
NonHidden == SelectSeq(fs, LAMBDA d : d.name[1] # 46)

LexLeq(s, t) ==
    \/ /\ Len(s) <= Len(t)
       /\ \A k \in 1..Len(s) : s[k] = t[k]
    \/ \E k \in 1..Min(Len(s), Len(t)) :
          /\ s[k] < t[k]
          /\ \A j \in 1..(k - 1) : s[j] = t[j]

\* C6: in every listing each directory row precedes each file row, rows of
\* one type are in non-decreasing byte-wise order of raw name, and the rows
\* are the collected entries; with distinct names this fixes the row order
\* whatever the order of enumeration.
C6_RowsSorted ==
    Rendered =>
        /\ Len(Rows) = Len(entries)
        /\ \A x \in 1..Len(entries) :
              \E y \in 1..Len(Rows) :
                 /\ Rows[y].row[1].name = entries[x].name
                 /\ Rows[y].row[1].dir = entries[x].dir
        /\ \A x, y \in 1..Len(Rows) :
              x < y =>
                 LET first  == Rows[x].row[1]
                     second == Rows[y].row[1]
                 IN  /\ ~(~first.dir /\ second.dir)
                     /\ first.dir = second.dir =>
                           /\ LexLeq(first.name, second.name)
                           /\ first.name # second.name

\* C6 witness: a listing rendered with the directory the stream enumerated
\* last written as the first row
C6_Witness ==
    /\ Rendered
    /\ Len(Rows) = 2
    /\ Len(NonHidden) = 2
    /\ Rows[1].row[1].dir /\ ~Rows[2].row[1].dir
    /\ Rows[1].row[1].name = NonHidden[2].name

\* C7: with a readme present and IFRAME requested, the iframe follows body
\* fragment 2 exactly when BOTTOM is not set, follows body fragment 3
\* exactly when BOTTOM is set, and so appears exactly once.
C7_IframeOnce ==
    (/\ Rendered
     /\ readme_probe = "present"
     /\ BitAnd(alcf.readme_flags, NGX_HTTP_FANCYINDEX_README_IFRAME) # 0) =>
        LET bottom == BitAnd(alcf.readme_flags,
                             NGX_HTTP_FANCYINDEX_README_BOTTOM) # 0
        IN  /\ IframeAfter("t04_body2") <=> ~bottom
            /\ IframeAfter("t07_body3") <=> bottom
            /\ Iframes = 1

\* nfi_get_readme_path has returned
PastReadme == readme_probe # "none"

\* C8: with the readme unconfigured, or configured and the probe failing,
\* the buffer holds no iframe whatever the flags, and the failure leaves the
\* handler on its way: the only later failure is the buffer allocation, and
\* a buffer handed to the output filter holds the complete document.
C8_AbsentReadme ==
    (PastReadme /\ readme_probe \in {"unconfigured", "failed"}) =>
        /\ readme_path = 0
        /\ Iframes = 0
        /\ pc = "estimate" => rc = NoRc
        /\ (pc = "done" /\ rc \in Failure) => (b = <<>> /\ err = "none")
        /\ (pc = "done" /\ b # <<>>) =>
              /\ rc \in {NGX_OK, NGX_ERROR}
              /\ Len(b) = 11 + Len(entries)
              /\ b[Len(b)].t = "t09_foot1"

\* C8 witness: a configured readme whose probe failed, flags asking for an
\* iframe at the bottom, and the listing handed over with NGX_OK
C8_Witness ==
    /\ pc = "done" /\ rc = NGX_OK /\ b # <<>>
    /\ readme_probe = "failed"
    /\ alcf.readme_flags = NGX_HTTP_FANCYINDEX_README_BOTTOM
                           + NGX_HTTP_FANCYINDEX_README_IFRAME
    /\ Len(Rows) = 2


-----------------------------------------------------------------------------
(* The entry formatter on its own: one entry collected and rendered *)

\* the longest name formatted (bytes for ASCII names, codepoints otherwise)
LongName == 55

Euro == <<226, 130, 172>>
EAcute == <<195, 169>>

FmtNames ==
    { Rep(<<97>>, k) : k \in {1, 47, 49, 50, 51, LongName} }
    \cup { Rep(EAcute, k) : k \in {1, 25, 26, 49, 50, 51, LongName} }
    \cup { <<97>> \o Rep(EAcute, k) : k \in {48, 49, 50, LongName} }
    \cup { Rep(Euro, k) : k \in {17, 51} }
    \cup { <<60, 38>> \o Rep(<<98>>, k) : k \in {1, LongName} }
    \cup { <<169>> \o Rep(<<97>>, k) : k \in {48, LongName} }
    \cup { <<169>> \o Rep(EAcute, 30) }

FmtSizes ==
    { Off(n) : n \in {0, 1, 1023, 1024, 2048, 9999, 10000, 10239, 10752,
                      MiB - 1, MiB, MiB + MiB \div 2 - 1, MiB + MiB \div 2,
                      GiB - 1} }
    \cup { [g |-> 1, r |-> 0],
           [g |-> 1, r |-> GiB \div 2 - 1],
           [g |-> 1, r |-> GiB \div 2],
           [g |-> 9999, r |-> GiB \div 2 - 1],
           [g |-> 9999, r |-> GiB \div 2],
           [g |-> 8388607, r |-> GiB - 1] }

FmtPool == [name : FmtNames, is_dir : BOOLEAN, size : FmtSizes]

InitFmt ==
    /\ pc = "fmt_collect"
    /\ r \in [uri_len : {1}, utf8 : BOOLEAN, header_only : {FALSE},
              decline : {"none"}]
    /\ alcf \in [enable : {TRUE}, exact_size : BOOLEAN, readme_len : {0},
                 readme_flags : {NGX_HTTP_FANCYINDEX_README_TOP}]
    /\ \E d \in FmtPool : fs = <<d>>
    /\ pos = 0
    /\ dir = "none"
    /\ closes = 0
    /\ headers_out = 0
    /\ entries = <<>>
    /\ readme_path = 0
    /\ len = 0
    /\ b = <<>>
    /\ i = 0
    /\ rc = NoRc
    /\ allocated = 0
    /\ close_failed = FALSE
    /\ vanished = 0
    /\ err = "none"
    /\ reads = 0
    /\ readme_probe = "none"

\* lines 393-413 applied to the one listed name
FmtCollect ==
    /\ pc = "fmt_collect"
    /\ entries' = <<MakeEntry(fs[1], fs[1].is_dir, fs[1].size, r.utf8)>>
    /\ len' = RowCapacity(entries'[1])
    /\ pc' = "fmt_render"
    /\ UNCHANGED <<r, alcf, fs, pos, dir, closes, headers_out, readme_path,
                   b, i, rc, allocated, close_failed, vanished, err, reads,
                   readme_probe>>

\* lines 524-643 applied to the one entry
FmtRender ==
    /\ pc = "fmt_render"
    /\ b' = <<RowFrag(RenderRow(0, entries[1], alcf.exact_size))>>
    /\ i' = 1
    /\ pc' = "fmt_done"
    /\ UNCHANGED <<r, alcf, fs, pos, dir, closes, headers_out, entries,
                   readme_path, len, rc, allocated, close_failed, vanished,
                   err, reads, readme_probe>>

NextFmt == FmtCollect \/ FmtRender

SpecFmt == InitFmt /\ [][NextFmt]_vars

\* a continuation byte of UTF-8
IsCont(c) == c >= 128 /\ c < 192

\* the continuation bytes a first byte asks for
Follow(c) == IF c < 192 THEN 0 ELSE IF c < 224 THEN 1 ELSE IF c < 240 THEN 2 ELSE 3

\* the positions where a codepoint starts
Starts(s) == { j \in 1..Len(s) : ~IsCont(s[j]) }

\* every first byte has its continuation bytes and no other byte continues
WellFormed(s) ==
    \A j \in 1..Len(s) :
        IF IsCont(s[j])
        THEN \E k \in Starts(s) : k < j /\ j <= k + Follow(s[k])
        ELSE /\ j + Follow(s[j]) <= Len(s)
             /\ \A m \in (j + 1)..(j + Follow(s[j])) : IsCont(s[m])

\* the display width: codepoints of a UTF-8 name in UTF-8 mode, else bytes
\* (a name that is not UTF-8 is measured in bytes)
DisplayWidth(s, utf8) ==
    IF utf8 /\ WellFormed(s) THEN Cardinality(Starts(s)) ELSE Len(s)

\* the first n units of a name at least n units wide
FirstUnits(s, utf8, n) ==
    IF utf8 /\ WellFormed(s)
    THEN LET ends == { j \in 1..Len(s) :
                         /\ Cardinality({ k \in Starts(s) : k <= j }) = n
                         /\ (j = Len(s) \/ (j + 1) \in Starts(s)) }
         IN  SubSeq(s, 1, CHOOSE j \in ends : TRUE)
    ELSE SubSeq(s, 1, n)

HalfUp(n, unit) == (n + unit \div 2) \div unit

\* C10: a directory renders as a dash; with exact_size a file has no unit;
\* without it a file of 0..9999 bytes renders as its byte count without a
\* unit, a larger one below 1024^2 in K, from 1024^2 below 1024^3 in M and
\* from 1024^3 in G, the magnitude being the size over the unit rounded half
\* up (10000 bytes render as 10K).
C10_SizeRendering ==
    \A k \in 1..Len(Rows) :
        LET row == Rows[k].row[1]
            e   == CHOOSE x \in { entries[j] : j \in 1..Len(entries) } :
                       x.name = row.name
            f   == row.size
            v   == e.size
        IN  /\ row.dir => f.kind = "dash"
            /\ (~row.dir /\ alcf.exact_size) =>
                   f.kind = "exact" /\ f.scale = "" /\ f.size = v
            /\ (~row.dir /\ ~alcf.exact_size) =>
                   /\ f.kind = "scaled"
                   /\ (v.g = 0 /\ v.r <= 9999) =>
                          f.scale = "" /\ f.size = v.r
                   /\ (v.g = 0 /\ v.r > 9999 /\ v.r < 1024 * 1024) =>
                          f.scale = "K" /\ f.size = HalfUp(v.r, 1024)
                   /\ (v.g = 0 /\ v.r >= 1024 * 1024) =>
                          f.scale = "M" /\ f.size = HalfUp(v.r, 1024 * 1024)
                   /\ v.g > 0 =>
                          f.scale = "G" /\ f.size = v.g + HalfUp(v.r, GiB)
                   /\ v = Off(10000) => f.scale = "K" /\ f.size = 10

\* C10 witness: a file of 10000 bytes rendered without exact_size as 10K
C10_Witness ==
    /\ pc = "fmt_done"
    /\ ~alcf.exact_size
    /\ ~Rows[1].row[1].dir
    /\ entries[1].size = Off(10000)
    /\ Rows[1].row[1].size.scale = "K"
    /\ Rows[1].row[1].size.size = 10

-----------------------------------------------------------------------------
(* The visible name as HTML text *)

\* the bytes that open markup or an entity in HTML text: " & < >
HtmlUnsafe == {34, 38, 60, 62}

\* &quot; &amp; &lt; &gt;
HtmlEntities ==
    { <<38, 113, 117, 111, 116, 59>>, <<38, 97, 109, 112, 59>>,
      <<38, 108, 116, 59>>, <<38, 103, 116, 59>> }

\* an entity starts at byte j of s
EntityAt(s, j) ==
    \E e \in HtmlEntities :
        /\ j + Len(e) - 1 <= Len(s)
        /\ SubSeq(s, j, j + Len(e) - 1) = e

\* the part of the visible text that comes from the name: the text without
\* the ellipsis the handler appends to a name wider than 50 units
NamePart(row) ==
    IF DisplayWidth(row.name, r.utf8) > NGX_HTTP_FANCYINDEX_NAME_LEN
       /\ Len(row.visible) >= Len(Ellipsis)
       /\ SubSeq(row.visible, Len(row.visible) - Len(Ellipsis) + 1,
                 Len(row.visible)) = Ellipsis
    THEN SubSeq(row.visible, 1, Len(row.visible) - Len(Ellipsis))
    ELSE row.visible

\* C11: in the visible text of every rendered row, no byte of the name that
\* is unsafe in HTML text stands unescaped: '<', '>' and '"' do not occur in
\* the part that comes from the name, and every '&' there starts an entity.
C11_VisibleNameEscaped ==
    \A k \in 1..Len(Rows) :
        LET text == NamePart(Rows[k].row[1])
        IN  \A j \in 1..Len(text) :
                /\ text[j] \in HtmlUnsafe => text[j] = 38
                /\ text[j] = 38 => EntityAt(text, j)

\* C12: without exact_size, the magnitude of every size rendered with a unit
\* (K, M or G) lies in 0..9999.
C12_MagnitudeRange ==
    \A k \in 1..Len(Rows) :
        LET f == Rows[k].row[1].size
        IN  (~alcf.exact_size /\ f.kind = "scaled" /\ f.scale # "") =>
                (f.size >= 0 /\ f.size <= 9999)

-----------------------------------------------------------------------------
(* The directory handle *)

\* the positions of the handler after the ngx_close_dir of line 416
AfterClose ==
    {"readme", "estimate", "sort", "render_head", "render_rows",
     "render_tail", "filter"}

\* C13: the result of ngx_close_dir decides nothing.  Once the handle has
\* been closed, whether the close succeeded or failed: a handler that has not
\* returned is on its way to the rendering; one that returned without a
\* buffer returned 500; one that returned with a buffer rendered one row per
\* collected entry and returned the value of the output filter.
C13_CloseNeverDecides ==
    closes > 0 =>
        /\ pc # "done" => (pc \in AfterClose /\ rc = NoRc)
        /\ (pc = "done" /\ b = <<>>) => rc = NGX_HTTP_INTERNAL_SERVER_ERROR
        /\ (pc = "done" /\ b # <<>>) =>
              /\ rc \in {NGX_OK, NGX_ERROR}
              /\ Len(Rows) = Len(entries)
              /\ b[Len(b)].t = "t09_foot1"

\* C13 witness: ngx_close_dir failed after the last entry and the handler
\* returned NGX_OK with a listing of two rows
C13_Witness ==
    /\ pc = "done"
    /\ close_failed
    /\ err = "none"
    /\ rc = NGX_OK
    /\ Len(Rows) = 2

\* a call on the handle: ngx_read_dir with its probes, or ngx_close_dir
HandleCall == reads' # reads \/ closes' # closes

\* C14: the handle is closed at most once; every read, probe and close call
\* is issued on the open handle; the buffer is created and written only
\* once the handle is closed.
C14_HandleLifecycle ==
    /\ [](/\ closes <= 1
          /\ dir = "closed" <=> closes = 1
          /\ (pc \in AfterClose \ {"readme", "estimate"} \/ b # <<>>) =>
                 dir = "closed")
    /\ [][HandleCall => (dir = "open" /\ closes = 0)]_vars

\* C14 witness: two entries were read, the handle was closed once, and the
\* rows are being written
C14_Witness ==
    /\ pc = "render_rows"
    /\ reads = 3
    /\ closes = 1
    /\ dir = "closed"
    /\ Len(Rows) = 1


====
